---- MODULE Spec2Model ----
(***************************************************************************)
(* Gift-card contract of gift-cards/src/lib.rs: the NFT validator          *)
(* (nft_contract_satisfied), the TOKEN validator                           *)
(* (token_contract_satisfied) and the dispatcher app_contract, as pure     *)
(* operators over a transaction, plus a small UTXO ledger that evolves by  *)
(* the transactions both validators accept.                                *)
(***************************************************************************)
EXTENDS Integers, Sequences, FiniteSets, TLC

VARIABLES
    tx,               \* the Transaction handed to app_contract: [ins, outs]
    x,                \* public input (Data)
    w,                \* witness (Data)
    app_identity,     \* App.identity (B32) shared by the NFT and TOKEN app
    overflow_checks,  \* build profile: TRUE = u64 overflow panics, FALSE = wraps
    nft_result,       \* outcome of app_contract with tag NFT   ("none" before)
    token_result,     \* outcome of app_contract with tag TOKEN ("none" before)
    ledger,           \* unspent outputs: set of [utxo_id, charms]
    height,           \* number of transactions applied to the ledger
    created           \* number of applied transactions that created a record

vars == <<tx, x, w, app_identity, overflow_checks, nft_result, token_result,
          ledger, height, created>>

-----------------------------------------------------------------------------
(* Bounds of the model *)

MaxAmount == 2
MaxIns == 2
MaxOuts == 2
MaxHeight == 2
U64Bits == 8

U64Max == 2 ^ U64Bits - 1
Amounts == 0 .. MaxAmount

-----------------------------------------------------------------------------
(* Outcomes of one evaluation: a returned boolean, or a panic *)

ACCEPT == "accept"
REJECT == "reject"
PANIC == "panic"

\* a || b with Rust's short circuit, where an operand may panic
OrElse(a, b) == IF a = REJECT THEN b ELSE a

-----------------------------------------------------------------------------
(* Data model *)

\* GiftCardNftContent
Content(b, i, init, exp, cr, rem) ==
    [brand |-> b, image |-> i, initial_amount |-> init, expiration_date |-> exp,
     created_at |-> cr, remaining_balance |-> rem]

NoContent == Content("-", "-", 0, 0, 0, 0)

\* The charms of one input or output, restricted to the two apps of this
\* contract: the NFT charm is absent ("none"), a Data that deserializes to a
\* GiftCardNftContent ("card") or a Data that does not ("bad"); the TOKEN charm
\* is absent, a u64 or a Data that is no u64.
Charms(n, c, t, a) == [nft |-> n, card |-> c, tok |-> t, amt |-> a]

NoCharms == Charms("none", NoContent, "none", 0)

\* SelectSeq-style map over a sequence
RECURSIVE MapCharms(_)
MapCharms(ins) ==
    IF ins = <<>> THEN <<>> ELSE <<Head(ins).charms>> \o MapCharms(Tail(ins))

\* tx.ins.iter().map(|(_, v)| v)
InCharms(t) == MapCharms(t.ins)

\* charm_values(nft_app, strings): the NFT Data of every string that has one
RECURSIVE charm_values(_)
charm_values(strings) ==
    IF strings = <<>> THEN <<>>
    ELSE (IF Head(strings).nft = "none" THEN <<>> ELSE <<Head(strings)>>)
         \o charm_values(Tail(strings))

\* charm_values(..).filter_map(|data| data.value::<GiftCardNftContent>().ok())
RECURSIVE decoded_nfts(_)
decoded_nfts(strings) ==
    IF strings = <<>> THEN <<>>
    ELSE (IF Head(strings).nft = "card" THEN <<Head(strings).card>> ELSE <<>>)
         \o decoded_nfts(Tail(strings))

\* u64 addition: panics with overflow checks, wraps without
AddU64(a, b) ==
    IF a + b <= U64Max THEN [st |-> "ok", val |-> a + b]
    ELSE IF overflow_checks THEN [st |-> "panic", val |-> 0]
    ELSE [st |-> "ok", val |-> (a + b) % (U64Max + 1)]

\* sum_token_amount(token_app, strings): Ok(sum) | Err | panic
RECURSIVE sum_token_amount_from(_, _)
sum_token_amount_from(acc, strings) ==
    IF strings = <<>> THEN acc
    ELSE LET c == Head(strings) IN
         IF c.tok = "none" THEN sum_token_amount_from(acc, Tail(strings))
         ELSE IF acc.st # "ok" THEN acc
         ELSE IF c.tok = "bad" THEN [st |-> "err", val |-> 0]
         ELSE sum_token_amount_from(AddU64(acc.val, c.amt), Tail(strings))

sum_token_amount(strings) == sum_token_amount_from([st |-> "ok", val |-> 0], strings)

\* iter().map(|nft| nft.remaining_balance).sum::<u64>()
RECURSIVE sum_remaining_from(_, _)
sum_remaining_from(acc, nfts) ==
    IF nfts = <<>> \/ acc.st # "ok" THEN acc
    ELSE sum_remaining_from(AddU64(acc.val, Head(nfts).remaining_balance), Tail(nfts))

sum_remaining(nfts) == sum_remaining_from([st |-> "ok", val |-> 0], nfts)

-----------------------------------------------------------------------------
(* Identity binding *)

\* Witness texts: two well-formed funding references and one text that is no
\* UtxoId
WitnessTexts == {"t0:0", "t1:0", "no-utxo"}

\* hash(data): Sha256 digest, injective on the texts of the model
hash(data) ==
    CASE data = "t0:0" -> "f54f"
      [] data = "t1:0" -> "9a1c"
      [] OTHER -> "03be"

UtxoIdOf(txid, vout) == [txid |-> txid, vout |-> vout]

\* UtxoId::from_str(s): Ok(id) | Err
from_str(s) ==
    CASE s = "t0:0" -> [ok |-> TRUE, id |-> UtxoIdOf("t0", 0)]
      [] s = "t1:0" -> [ok |-> TRUE, id |-> UtxoIdOf("t1", 0)]
      [] OTHER -> [ok |-> FALSE, id |-> UtxoIdOf("", 0)]

\* Data of the witness / public input
EmptyData == [kind |-> "empty", text |-> ""]
TextData(s) == [kind |-> "text", text |-> s]
OtherData == [kind |-> "other", text |-> ""]

-----------------------------------------------------------------------------
(* NFT validator *)

\* can_mint_gift_card_nft(nft_app, tx, w)
can_mint_gift_card_nft(identity, t, wit) ==
    IF wit.kind # "text" THEN REJECT                      \* check!(w_str.is_some())
    ELSE IF hash(wit.text) # identity THEN REJECT         \* check!(hash(&w_str) == identity)
    ELSE IF ~from_str(wit.text).ok THEN PANIC             \* UtxoId::from_str(..).unwrap()
    ELSE IF ~\E k \in DOMAIN t.ins : t.ins[k].utxo_id = from_str(wit.text).id
         THEN REJECT
    ELSE LET nfts == charm_values(t.outs) IN
         IF nfts = <<>> THEN REJECT                       \* no first NFT output
         ELSE IF Len(nfts) > 1 THEN REJECT                \* a second one
         ELSE IF nfts[1].nft # "card" THEN REJECT         \* first_nft.value() is Err
         ELSE IF nfts[1].card.remaining_balance # nfts[1].card.initial_amount
              THEN REJECT
         ELSE ACCEPT

\* the five check!s of the loop body of can_transfer_gift_card_nft
SameMetadata(input_nft, output_nft) ==
    /\ input_nft.brand = output_nft.brand
    /\ input_nft.image = output_nft.image
    /\ input_nft.initial_amount = output_nft.initial_amount
    /\ input_nft.expiration_date = output_nft.expiration_date
    /\ input_nft.created_at = output_nft.created_at

\* can_transfer_gift_card_nft that also pins remaining_balance, as an NFT
\* validator that checked balances itself would
can_transfer_gift_card_nft_pinned(t) ==
    LET input_nfts == decoded_nfts(InCharms(t))
        output_nfts == decoded_nfts(t.outs)
    IN  IF input_nfts = <<>> THEN REJECT
        ELSE IF Len(input_nfts) # Len(output_nfts) THEN REJECT
        ELSE IF \A k \in DOMAIN input_nfts :
                    /\ SameMetadata(input_nfts[k], output_nfts[k])
                    /\ input_nfts[k].remaining_balance = output_nfts[k].remaining_balance
             THEN ACCEPT
        ELSE REJECT

\* can_transfer_gift_card_nft(nft_app, tx)
can_transfer_gift_card_nft(t) ==
    LET input_nfts == decoded_nfts(InCharms(t))
        output_nfts == decoded_nfts(t.outs)
    IN  IF input_nfts = <<>> THEN REJECT
        ELSE IF Len(input_nfts) # Len(output_nfts) THEN REJECT
        ELSE IF \A k \in DOMAIN input_nfts : SameMetadata(input_nfts[k], output_nfts[k])
             THEN ACCEPT
        ELSE REJECT

\* can_burn_gift_card(nft_app, tx, token_app)
can_burn_gift_card(t) ==
    LET input_nfts == decoded_nfts(InCharms(t))
        output_nfts == decoded_nfts(t.outs)
        input_token_amount == sum_token_amount(InCharms(t))
        output_token_amount == sum_token_amount(t.outs)
    IN  IF ~(Len(input_nfts) > 0) THEN REJECT
        ELSE IF ~(Len(output_nfts) = 0) THEN REJECT
        ELSE IF input_token_amount.st = "panic" THEN PANIC
        ELSE IF input_token_amount.st = "err" THEN REJECT
        ELSE IF output_token_amount.st = "panic" THEN PANIC
        ELSE IF output_token_amount.st = "err"
             THEN (IF input_token_amount.val > 0 THEN ACCEPT ELSE REJECT)
        ELSE IF output_token_amount.val = 0
                \/ output_token_amount.val < input_token_amount.val
             THEN ACCEPT
        ELSE REJECT

\* nft_contract_satisfied(app, tx, w)
nft_contract_satisfied(identity, t, wit) ==
    LET mint == can_mint_gift_card_nft(identity, t, wit)
        has_input_nft == charm_values(InCharms(t)) # <<>>
        has_output_nft == charm_values(t.outs) # <<>>
        output_token_result == sum_token_amount(t.outs)
    IN  IF mint # REJECT THEN mint
        ELSE IF ~has_input_nft THEN ACCEPT
        ELSE IF ~has_output_nft
             THEN IF output_token_result.st = "panic" THEN PANIC
                  ELSE IF output_token_result.st = "ok" /\ output_token_result.val > 0
                       THEN ACCEPT
                  ELSE can_burn_gift_card(t)
        ELSE can_transfer_gift_card_nft(t)

-----------------------------------------------------------------------------
(* TOKEN validator *)

RedeemTolerance == 100

\* can_mint_initial_tokens that compares the input amount, not the output
\* amount, with initial_amount
can_mint_initial_tokens_wrong_amount(t) ==
    LET output_nfts == decoded_nfts(t.outs)
        has_input_nfts == \E k \in DOMAIN t.ins : t.ins[k].charms.nft # "none"
        input_token_amount == sum_token_amount(InCharms(t))
        output_token_amount == sum_token_amount(t.outs)
    IN  IF output_nfts = <<>> THEN REJECT
        ELSE IF has_input_nfts THEN REJECT
        ELSE IF input_token_amount.st = "panic" THEN PANIC
        ELSE IF input_token_amount.st = "err" THEN REJECT
        ELSE IF input_token_amount.val # 0 THEN REJECT
        ELSE IF output_token_amount.st = "panic" THEN PANIC
        ELSE IF output_token_amount.st = "err" THEN REJECT
        ELSE IF input_token_amount.val # output_nfts[1].initial_amount THEN REJECT
        ELSE ACCEPT

\* can_mint_initial_tokens(token_app, tx)
can_mint_initial_tokens(t) ==
    LET output_nfts == decoded_nfts(t.outs)
        has_input_nfts == \E k \in DOMAIN t.ins : t.ins[k].charms.nft # "none"
        input_token_amount == sum_token_amount(InCharms(t))
        output_token_amount == sum_token_amount(t.outs)
    IN  IF output_nfts = <<>> THEN REJECT
        ELSE IF has_input_nfts THEN REJECT
        ELSE IF input_token_amount.st = "panic" THEN PANIC
        ELSE IF input_token_amount.st = "err" THEN REJECT
        ELSE IF input_token_amount.val # 0 THEN REJECT
        ELSE IF output_token_amount.st = "panic" THEN PANIC
        ELSE IF output_token_amount.st = "err" THEN REJECT
        ELSE IF output_token_amount.val # output_nfts[1].initial_amount THEN REJECT
        ELSE ACCEPT

\* the body of the `for out in tx.outs.iter()` loop of can_transfer_tokens
OutputBalanceMatches(out) ==
    LET output_token == sum_token_amount(<<out>>) IN
    out.nft = "card" =>
        /\ output_token.st = "ok"
        /\ out.card.remaining_balance = output_token.val

\* can_transfer_tokens without the conservation check
can_transfer_tokens_unbalanced(t) ==
    LET input_token_amount == sum_token_amount(InCharms(t))
        output_token_amount == sum_token_amount(t.outs)
        input_nfts == decoded_nfts(InCharms(t))
        input_nft_balance == sum_remaining(input_nfts)
    IN  IF input_token_amount.st = "panic" THEN PANIC
        ELSE IF input_token_amount.st = "err" THEN REJECT
        ELSE IF output_token_amount.st = "panic" THEN PANIC
        ELSE IF output_token_amount.st = "err" THEN REJECT
        ELSE IF input_nfts # <<>> /\ input_nft_balance.st = "panic" THEN PANIC
        ELSE IF input_nfts # <<>> /\ input_nft_balance.val # input_token_amount.val
             THEN REJECT
        ELSE IF \A k \in DOMAIN t.outs : OutputBalanceMatches(t.outs[k]) THEN ACCEPT
        ELSE REJECT

\* can_transfer_tokens(token_app, tx)
can_transfer_tokens(t) ==
    LET input_token_amount == sum_token_amount(InCharms(t))
        output_token_amount == sum_token_amount(t.outs)
        input_nfts == decoded_nfts(InCharms(t))
        input_nft_balance == sum_remaining(input_nfts)
    IN  IF input_token_amount.st = "panic" THEN PANIC
        ELSE IF input_token_amount.st = "err" THEN REJECT
        ELSE IF output_token_amount.st = "panic" THEN PANIC
        ELSE IF output_token_amount.st = "err" THEN REJECT
        ELSE IF input_token_amount.val # output_token_amount.val THEN REJECT
        ELSE IF input_nfts # <<>> /\ input_nft_balance.st = "panic" THEN PANIC
        ELSE IF input_nfts # <<>> /\ input_nft_balance.val # input_token_amount.val
             THEN REJECT
        ELSE IF \A k \in DOMAIN t.outs : OutputBalanceMatches(t.outs[k]) THEN ACCEPT
        ELSE REJECT

\* can_redeem_tokens without the cap of the output amount by remaining_balance
can_redeem_tokens_uncapped(t) ==
    LET input_nfts == decoded_nfts(InCharms(t))
        output_nfts == decoded_nfts(t.outs)
        input_token_amount == sum_token_amount(InCharms(t))
        output_token_amount == sum_token_amount(t.outs)
        limit == AddU64(input_nfts[1].remaining_balance, RedeemTolerance)
    IN  IF input_nfts = <<>> THEN REJECT
        ELSE IF output_nfts # <<>> THEN REJECT
        ELSE IF input_token_amount.st = "panic" THEN PANIC
        ELSE IF input_token_amount.st = "err" THEN REJECT
        ELSE IF output_token_amount.st = "panic" THEN PANIC
        ELSE IF output_token_amount.st = "err" THEN REJECT
        ELSE IF output_token_amount.val = 0 THEN REJECT
        ELSE IF input_token_amount.val < output_token_amount.val THEN REJECT
        ELSE IF limit.st = "panic" THEN PANIC
        ELSE IF input_token_amount.val > limit.val THEN REJECT
        ELSE ACCEPT

\* can_redeem_tokens without the check that the output amount is positive
can_redeem_tokens_zero_output(t) ==
    LET input_nfts == decoded_nfts(InCharms(t))
        output_nfts == decoded_nfts(t.outs)
        input_token_amount == sum_token_amount(InCharms(t))
        output_token_amount == sum_token_amount(t.outs)
        limit == AddU64(input_nfts[1].remaining_balance, RedeemTolerance)
    IN  IF input_nfts = <<>> THEN REJECT
        ELSE IF output_nfts # <<>> THEN REJECT
        ELSE IF input_token_amount.st = "panic" THEN PANIC
        ELSE IF input_token_amount.st = "err" THEN REJECT
        ELSE IF output_token_amount.st = "panic" THEN PANIC
        ELSE IF output_token_amount.st = "err" THEN REJECT
        ELSE IF output_token_amount.val > input_nfts[1].remaining_balance THEN REJECT
        ELSE IF input_token_amount.val < output_token_amount.val THEN REJECT
        ELSE IF limit.st = "panic" THEN PANIC
        ELSE IF input_token_amount.val > limit.val THEN REJECT
        ELSE ACCEPT

\* can_redeem_tokens(token_app, tx)
can_redeem_tokens(t) ==
    LET input_nfts == decoded_nfts(InCharms(t))
        output_nfts == decoded_nfts(t.outs)
        input_token_amount == sum_token_amount(InCharms(t))
        output_token_amount == sum_token_amount(t.outs)
        limit == AddU64(input_nfts[1].remaining_balance, RedeemTolerance)
    IN  IF input_nfts = <<>> THEN REJECT
        ELSE IF output_nfts # <<>> THEN REJECT
        ELSE IF input_token_amount.st = "panic" THEN PANIC
        ELSE IF input_token_amount.st = "err" THEN REJECT
        ELSE IF output_token_amount.st = "panic" THEN PANIC
        ELSE IF output_token_amount.st = "err" THEN REJECT
        ELSE IF output_token_amount.val = 0 THEN REJECT
        ELSE IF output_token_amount.val > input_nfts[1].remaining_balance THEN REJECT
        ELSE IF input_token_amount.val < output_token_amount.val THEN REJECT
        ELSE IF limit.st = "panic" THEN PANIC
        ELSE IF input_token_amount.val > limit.val THEN REJECT
        ELSE ACCEPT

\* token_contract_satisfied(token_app, tx)
token_contract_satisfied(t) ==
    OrElse(can_transfer_tokens(t),
           OrElse(can_mint_initial_tokens(t), can_redeem_tokens(t)))

-----------------------------------------------------------------------------
(* Dispatcher *)

NFT == "n"
TOKEN == "t"

\* app_contract(app, tx, x, w)
app_contract(tag, identity, t, xx, wit) ==
    IF xx # EmptyData THEN PANIC                          \* assert_eq!(x, &empty)
    ELSE IF tag = NFT THEN nft_contract_satisfied(identity, t, wit)
    ELSE token_contract_satisfied(t)

-----------------------------------------------------------------------------
(* Inputs of the validators *)

\* Gift Card Records.  The validators compare brand, image, expiration_date and
\* created_at only for equality, so one base value and one deviating value per
\* field are enough; a record deviates from the base in at most one of them.
BaseCard(init, rem) == Content("acme", "ipfs-1", init, 20, 10, rem)

Variants(c) ==
    {c,
     [c EXCEPT !.brand = "zeta"],
     [c EXCEPT !.image = "ipfs-2"],
     [c EXCEPT !.expiration_date = 21],
     [c EXCEPT !.created_at = 11]}

InitialAmounts == {MaxAmount - 1, MaxAmount}

BaseCards == {BaseCard(init, rem) : init \in InitialAmounts, rem \in Amounts}
Cards == UNION {Variants(c) : c \in BaseCards}

TokenParts == {[tok |-> "none", amt |-> 0]} \cup {[tok |-> "u64", amt |-> a] : a \in Amounts \ {0}}

WithToken(n, t) == [n EXCEPT !.tok = t.tok, !.amt = t.amt]

CardCharms(cs) ==
    {WithToken(Charms("card", c, "none", 0), t) : c \in cs, t \in TokenParts}

TokenOnlyCharms == {WithToken(NoCharms, t) : t \in TokenParts}

\* charms that do not deserialize: an NFT Data that is no GiftCardNftContent,
\* a TOKEN Data that is no u64
BadNft == Charms("bad", NoContent, "none", 0)
BadToken == Charms("none", NoContent, "bad", 0)

SeqsUpTo(S, n) == UNION {[1 .. k -> S] : k \in 0 .. n}

\* the ledger references of the inputs: the first input spends the funding
\* output "t0:0" or another one, the following inputs spend other outputs
InputIds(first) == [k \in 1 .. MaxIns |-> IF k = 1 THEN first ELSE UtxoIdOf("t9", k)]
FirstIds == {UtxoIdOf("t0", 0), UtxoIdOf("t1", 0)}

MkTx(first, cin, couts) ==
    [ins |-> [k \in DOMAIN cin |-> [utxo_id |-> InputIds(first)[k], charms |-> cin[k]]],
     outs |-> couts]

\* Transactions with at most one input and one output that carry charms of any
\* shape (with base metadata), and possibly a second output that carries only
\* tokens.
SingleSlots == TokenOnlyCharms \cup CardCharms(BaseCards) \cup {BadNft, BadToken}

SingleTx(t) ==
    \E f \in FirstIds, cin \in SeqsUpTo(SingleSlots, 1),
       couts \in SeqsUpTo(SingleSlots, 1)
                 \cup {<<o, e>> : o \in SingleSlots, e \in TokenOnlyCharms \ {NoCharms}} :
        t = MkTx(f, cin, couts)

\* Transactions that carry one record forward: the output record is any card,
\* also one that deviates from the base metadata.
CarryTx(t) ==
    \E f \in FirstIds, i \in CardCharms(BaseCards), o \in CardCharms(Cards) :
        t = MkTx(f, <<i>>, <<o>>)

\* Transactions with at most two inputs and two outputs; a record of these has
\* the base metadata and initial_amount MaxAmount, and shares its input or
\* output with no tokens or with as many as its remaining_balance.
PairSlots ==
    TokenOnlyCharms
    \cup {Charms("card", BaseCard(MaxAmount, r), "none", 0) : r \in Amounts}
    \cup {Charms("card", BaseCard(MaxAmount, r), "u64", r) : r \in Amounts \ {0}}

PairsOf(S) == {<<>>} \cup {<<a>> : a \in S} \cup {<<a, b>> : a \in S, b \in S}

PairTx(t) ==
    \E f \in FirstIds, cin \in PairsOf(PairSlots), couts \in PairsOf(PairSlots) :
        t = MkTx(f, cin, couts)

\* Transactions with up to MaxIns inputs and MaxOuts outputs, the first input
\* spending the funding output; a record of these is spent (remaining_balance
\* 0, no tokens) or full (remaining_balance MaxAmount, with or without its
\* tokens)
ManySlots ==
    {NoCharms, Charms("none", NoContent, "u64", MaxAmount),
     Charms("card", BaseCard(MaxAmount, 0), "none", 0),
     Charms("card", BaseCard(MaxAmount, MaxAmount), "none", 0),
     Charms("card", BaseCard(MaxAmount, MaxAmount), "u64", MaxAmount)}

ManyTx(t) ==
    \E cin \in SeqsUpTo(ManySlots, MaxIns), couts \in SeqsUpTo(ManySlots, MaxOuts) :
        t = MkTx(UtxoIdOf("t0", 0), cin, couts)

\* Transactions whose amounts reach the largest u64 or the tolerance of the
\* redeem rule: one or two input records, tokens on the first input, at most
\* one output, of tokens or of a spent record.  The token sums of a transaction
\* stay within u64 (sum_token_amount is charms_sdk's; what it does beyond u64
\* is not part of this crate).
LargeAmounts == {1, U64Max}

\* the largest input amount the redeem rule tolerates for a record of
\* remaining_balance 1, and the first it does not
ToleranceAmounts == {1 + RedeemTolerance, 1 + RedeemTolerance + 1}

LargeTx(t) ==
    \E r \in LargeAmounts,
       tk \in {[tok |-> "none", amt |-> 0]}
               \cup {[tok |-> "u64", amt |-> a] : a \in LargeAmounts \cup ToleranceAmounts},
       more \in {<<>>} \cup {<<Charms("card", BaseCard(1, r2), "none", 0)>> : r2 \in LargeAmounts},
       couts \in SeqsUpTo({Charms("none", NoContent, "u64", a) : a \in LargeAmounts}
                          \cup {Charms("card", BaseCard(1, 0), "none", 0)}, 1) :
        t = MkTx(UtxoIdOf("t1", 0),
                 <<WithToken(Charms("card", BaseCard(1, r), "none", 0), tk)>> \o more, couts)

SmallTx(t) == SingleTx(t) \/ CarryTx(t) \/ PairTx(t) \/ ManyTx(t)

\* (public input, identity, witness) of an invocation: every witness against
\* the identity of the funding output "t0:0"; a witness that hashes to the
\* identity and is no UtxoId; a non-empty public input, without a witness and
\* with the witness that funds a mint.
Witnesses == {EmptyData, OtherData} \cup {TextData(s) : s \in WitnessTexts}

Invocations ==
    {<<EmptyData, hash("t0:0"), wit>> : wit \in Witnesses}
    \cup {<<EmptyData, hash("no-utxo"), TextData("no-utxo")>>,
          <<OtherData, hash("t0:0"), EmptyData>>,
          <<OtherData, hash("t0:0"), TextData("t0:0")>>}

-----------------------------------------------------------------------------
(* Evaluation of the two validators on one transaction *)

\* The arguments of app_contract.  No sum of a small transaction comes near
\* U64Max, so the build profile cannot change its outcome and is drawn only for
\* the large ones.
Init ==
    /\ \/ SmallTx(tx) /\ overflow_checks = TRUE
       \/ LargeTx(tx) /\ overflow_checks \in BOOLEAN
    /\ \E inv \in Invocations : x = inv[1] /\ app_identity = inv[2] /\ w = inv[3]
    /\ nft_result = "none"
    /\ token_result = "none"
    /\ ledger = {}
    /\ height = 0
    /\ created = 0

\* the NFT app of the transaction is checked
CallNft ==
    /\ nft_result = "none"
    /\ nft_result' = app_contract(NFT, app_identity, tx, x, w)
    /\ UNCHANGED <<tx, x, w, app_identity, overflow_checks, token_result,
                   ledger, height, created>>

\* the TOKEN app of the transaction is checked
CallToken ==
    /\ token_result = "none"
    /\ token_result' = app_contract(TOKEN, app_identity, tx, x, w)
    /\ UNCHANGED <<tx, x, w, app_identity, overflow_checks, nft_result,
                   ledger, height, created>>

Next == CallNft \/ CallToken

Spec == Init /\ [][Next]_vars

-----------------------------------------------------------------------------
(* The ledger: unspent outputs, spent and created by the transactions that   *)
(* both validators accept                                                    *)

Range(f) == {f[k] : k \in DOMAIN f}

\* sequences of n distinct elements of S, n in 1 .. max
DistinctSeqs(S, max) ==
    {q \in UNION {[1 .. n -> S] : n \in 1 .. max} :
        \A a, b \in DOMAIN q : a # b => q[a] # q[b]}

\* a transaction that has a record in its outputs and none in its inputs
CreatesRecord(t) == decoded_nfts(InCharms(t)) = <<>> /\ decoded_nfts(t.outs) # <<>>

\* charms a ledger transaction may put on an output: tokens alone, or a record
\* together with as many tokens as its remaining_balance
LedgerSlots ==
    TokenOnlyCharms
    \cup {Charms("card", BaseCard(MaxAmount, 0), "none", 0)}
    \cup {Charms("card", BaseCard(MaxAmount, r), "u64", r) : r \in Amounts \ {0}}

LedgerInit ==
    /\ ledger = {[utxo_id |-> UtxoIdOf("t0", 0), charms |-> NoCharms],
                 [utxo_id |-> UtxoIdOf("t1", 0), charms |-> NoCharms]}
    /\ height = 0
    /\ created = 0
    /\ tx = [ins |-> <<>>, outs |-> <<>>]
    /\ x = EmptyData
    /\ w = EmptyData
    /\ app_identity = hash("t0:0")
    /\ overflow_checks = TRUE
    /\ nft_result = "none"
    /\ token_result = "none"

\* a transaction t with witness wit is checked by both apps and, accepted by
\* both, spends its inputs and adds its outputs to the ledger
Submit(t, wit) ==
    /\ height < MaxHeight
    /\ app_contract(NFT, app_identity, t, x, wit) = ACCEPT
    /\ app_contract(TOKEN, app_identity, t, x, wit) = ACCEPT
    /\ tx' = t
    /\ w' = wit
    /\ nft_result' = ACCEPT
    /\ token_result' = ACCEPT
    /\ ledger' = (ledger \ Range(t.ins))
                 \cup {[utxo_id |-> UtxoIdOf(ToString(height + 1), k - 1),
                        charms |-> t.outs[k]] : k \in DOMAIN t.outs}
    /\ height' = height + 1
    /\ created' = created + (IF CreatesRecord(t) THEN 1 ELSE 0)
    /\ UNCHANGED <<x, app_identity, overflow_checks>>

LedgerNext ==
    \E ins \in DistinctSeqs(ledger, MaxIns), outs \in SeqsUpTo(LedgerSlots, MaxOuts),
       wit \in {EmptyData, TextData("t0:0")} :
        Submit([ins |-> ins, outs |-> outs], wit)

LedgerSpec == LedgerInit /\ [][LedgerNext]_vars

-----------------------------------------------------------------------------
(* Vocabulary of the properties *)

\* the Gift Card Records of the inputs / outputs, in order
InputRecords(t) == decoded_nfts(InCharms(t))
OutputRecords(t) == decoded_nfts(t.outs)

\* total Token Balance of a sequence of charms
RECURSIVE TokenTotal(_)
TokenTotal(strings) ==
    IF strings = <<>> THEN 0
    ELSE (IF Head(strings).tok = "u64" THEN Head(strings).amt ELSE 0)
         + TokenTotal(Tail(strings))

\* sum of the remaining_balance of a sequence of records
RECURSIVE RemainingTotal(_)
RemainingTotal(nfts) ==
    IF nfts = <<>> THEN 0
    ELSE Head(nfts).remaining_balance + RemainingTotal(Tail(nfts))

NftDone == nft_result # "none"
TokenDone == token_result # "none"
BothAccept == nft_result = ACCEPT /\ token_result = ACCEPT

\* the witness passes the witness checks of the mint rule: a funding-reference
\* text that hashes to the identity and names an input of the transaction
WitnessFunds(identity, t, wit) ==
    /\ wit.kind = "text"
    /\ from_str(wit.text).ok
    /\ hash(wit.text) = identity
    /\ \E k \in DOMAIN t.ins : t.ins[k].utxo_id = from_str(wit.text).id

-----------------------------------------------------------------------------
(* C1 .. C4: minting *)

\* C1: on a ledger that starts without a Gift Card Record and evolves by the
\* transactions both validators accept, a record is created at most once.
C1_CreatedAtMostOnce == created <= 1

\* C2: a transaction with no record in its inputs and two or more records in
\* its outputs is not accepted by both validators.
C2_DoubleMintRejected ==
    (NftDone /\ TokenDone /\ InputRecords(tx) = <<>> /\ Len(OutputRecords(tx)) >= 2)
        => ~BothAccept

\* C3: a transaction accepted by both validators that creates a record creates
\* it with remaining_balance = initial_amount and puts exactly initial_amount
\* tokens in its outputs.
C3_MintSoundness ==
    (BothAccept /\ CreatesRecord(tx)) =>
        /\ OutputRecords(tx)[1].remaining_balance = OutputRecords(tx)[1].initial_amount
        /\ TokenTotal(tx.outs) = OutputRecords(tx)[1].initial_amount

\* C4: the NFT validator does not accept a transaction that creates a record
\* when the witness is missing, is no funding-reference text, hashes to another
\* value than the identity or names no input of the transaction.
C4_MintNeedsWitness ==
    (NftDone /\ CreatesRecord(tx) /\ ~WitnessFunds(app_identity, tx, w))
        => nft_result # ACCEPT

-----------------------------------------------------------------------------
(* C5 .. C8: balances and metadata *)

\* the fields of a record that no transition may change
Immutable(c) == <<c.brand, c.image, c.initial_amount, c.expiration_date, c.created_at>>

\* initial issuance: no input record, an output record, no input tokens, as
\* many output tokens as the initial_amount of an output record
IsInitialIssuance(t) ==
    /\ InputRecords(t) = <<>>
    /\ TokenTotal(InCharms(t)) = 0
    /\ \E k \in DOMAIN OutputRecords(t) :
          TokenTotal(t.outs) = OutputRecords(t)[k].initial_amount

\* redeem-and-burn: an input record, no output record, fewer tokens out than in
IsRedeemAndBurn(t) ==
    /\ InputRecords(t) # <<>>
    /\ OutputRecords(t) = <<>>
    /\ TokenTotal(t.outs) < TokenTotal(InCharms(t))

\* C5: a transaction the TOKEN validator accepts and whose total output Token
\* Balance differs from its total input Token Balance is an initial issuance
\* or a redeem-and-burn.
C5_Conservation ==
    (token_result = ACCEPT /\ TokenTotal(tx.outs) # TokenTotal(InCharms(tx)))
        => (IsInitialIssuance(tx) \/ IsRedeemAndBurn(tx))

C5_Witness ==
    /\ token_result = ACCEPT
    /\ IsRedeemAndBurn(tx)
    /\ TokenTotal(tx.outs) > 0

\* C6: in a transaction accepted by both validators with records in inputs and
\* outputs, no output record has a larger remaining_balance than the input
\* record it is paired with.
C6_MonotonicBalance ==
    (BothAccept /\ InputRecords(tx) # <<>> /\ OutputRecords(tx) # <<>>) =>
        \A k \in DOMAIN InputRecords(tx) \cap DOMAIN OutputRecords(tx) :
            OutputRecords(tx)[k].remaining_balance <= InputRecords(tx)[k].remaining_balance

\* C7: in a transaction the NFT validator accepts with records in inputs and
\* outputs, there are as many output records as input records and each pair
\* agrees on brand, image, initial_amount, expiration_date and created_at,
\* whatever the witness.
C7_Immutability ==
    (nft_result = ACCEPT /\ InputRecords(tx) # <<>> /\ OutputRecords(tx) # <<>>) =>
        /\ Len(InputRecords(tx)) = Len(OutputRecords(tx))
        /\ \A k \in DOMAIN InputRecords(tx) :
              Immutable(InputRecords(tx)[k]) = Immutable(OutputRecords(tx)[k])

\* a transaction that destroys its records and leaves more tokens in its
\* outputs than the consumed records' remaining_balance
LeavesUncoveredTokens(t) ==
    /\ InputRecords(t) # <<>>
    /\ OutputRecords(t) = <<>>
    /\ TokenTotal(t.outs) > RemainingTotal(InputRecords(t))

\* C8: the TOKEN validator does not accept a transaction that has records in
\* its inputs, none in its outputs and a total output Token Balance above the
\* consumed records' remaining_balance.
C8_BurnCompleteness ==
    (TokenDone /\ LeavesUncoveredTokens(tx)) => token_result # ACCEPT

C8_Witness ==
    /\ token_result = REJECT
    /\ LeavesUncoveredTokens(tx)
    /\ TokenTotal(tx.outs) = TokenTotal(InCharms(tx))

-----------------------------------------------------------------------------
(* C9, C10: the transactions that must pass *)

NoBadCharms(t) ==
    /\ \A k \in DOMAIN t.ins : t.ins[k].charms.nft # "bad" /\ t.ins[k].charms.tok # "bad"
    /\ \A k \in DOMAIN t.outs : t.outs[k].nft # "bad" /\ t.outs[k].tok # "bad"

\* one input record with balance b and b input tokens; one output with the
\* record, balance b2 <= b and b2 tokens; the other b - b2 tokens in outputs
\* without a record
IsTransferOrPartialRedeem(t) ==
    /\ NoBadCharms(t)
    /\ Len(InputRecords(t)) = 1
    /\ Len(OutputRecords(t)) = 1
    /\ TokenTotal(InCharms(t)) = InputRecords(t)[1].remaining_balance
    /\ TokenTotal(t.outs) = InputRecords(t)[1].remaining_balance
    /\ Immutable(OutputRecords(t)[1]) = Immutable(InputRecords(t)[1])
    /\ OutputRecords(t)[1].remaining_balance <= InputRecords(t)[1].remaining_balance
    /\ \E k \in DOMAIN t.outs :
          /\ t.outs[k].nft = "card"
          /\ TokenTotal(<<t.outs[k]>>) = t.outs[k].card.remaining_balance

\* C9: a transfer or partial redemption is accepted by the NFT validator with
\* an empty witness and by the TOKEN validator.
C9_TransferAccepted ==
    (NftDone /\ TokenDone /\ x = EmptyData /\ w = EmptyData
        /\ IsTransferOrPartialRedeem(tx)) => BothAccept

C9_Witness ==
    /\ BothAccept
    /\ w = EmptyData
    /\ IsTransferOrPartialRedeem(tx)
    /\ OutputRecords(tx)[1].remaining_balance < InputRecords(tx)[1].remaining_balance
    /\ Len(tx.outs) = 2

\* no NFT charm and no tokens in the inputs, a witness that funds the mint,
\* exactly one output record, with remaining_balance = initial_amount, and
\* initial_amount output tokens
IsWellFormedMint(identity, t, wit) ==
    /\ NoBadCharms(t)
    /\ charm_values(InCharms(t)) = <<>>
    /\ TokenTotal(InCharms(t)) = 0
    /\ WitnessFunds(identity, t, wit)
    /\ Len(OutputRecords(t)) = 1
    /\ OutputRecords(t)[1].remaining_balance = OutputRecords(t)[1].initial_amount
    /\ TokenTotal(t.outs) = OutputRecords(t)[1].initial_amount

\* C10: a well-formed mint is accepted by both validators.
C10_MintAccepted ==
    (NftDone /\ TokenDone /\ x = EmptyData /\ IsWellFormedMint(app_identity, tx, w))
        => BothAccept

C10_Witness ==
    /\ BothAccept
    /\ IsWellFormedMint(app_identity, tx, w)
    /\ TokenTotal(tx.outs) > 0

-----------------------------------------------------------------------------
(* C11, C12: the outcome of an invocation *)

\* with a non-empty public input neither app is accepted (the part of C11 the
\* code satisfies: assert_eq! leaves before any rule is tried)
NonEmptyInputNeverAccepted ==
    x # EmptyData => (nft_result # ACCEPT /\ token_result # ACCEPT)

\* C11: an invocation of either app with a non-empty public input, whatever
\* the transaction and the witness, ends with the Reject signal, i.e. it
\* returns false.
C11_NonEmptyInputRejected ==
    x # EmptyData =>
        /\ NftDone => nft_result = REJECT
        /\ TokenDone => token_result = REJECT

-----------------------------------------------------------------------------
(* C13, C14: destruction of records *)

\* pure burn: a record in the inputs, none in the outputs, no tokens in the
\* outputs
IsPureBurn(t) ==
    /\ InputRecords(t) # <<>>
    /\ OutputRecords(t) = <<>>
    /\ TokenTotal(t.outs) = 0

\* C13: when the mint rule does not apply, the NFT validator rejects a pure
\* burn whose total input Token Balance is zero (it accepts a pure burn only
\* if there was balance to destroy).
C13_PureBurnNeedsBalance ==
    (NftDone /\ x = EmptyData
        /\ can_mint_gift_card_nft(app_identity, tx, w) = REJECT
        /\ IsPureBurn(tx) /\ TokenTotal(InCharms(tx)) = 0)
        => nft_result = REJECT

\* C14: the TOKEN validator rejects a transaction with two or more input
\* records, no output record and a total output Token Balance that differs
\* from the total input Token Balance (redeem-and-burn consumes exactly one
\* record).
C14_RedeemConsumesOneRecord ==
    (TokenDone /\ x = EmptyData
        /\ Len(InputRecords(tx)) >= 2 /\ OutputRecords(tx) = <<>>
        /\ TokenTotal(tx.outs) # TokenTotal(InCharms(tx)))
        => token_result = REJECT

-----------------------------------------------------------------------------
(* C15: the tolerance of the redeem rule *)

\* one input record, no output record, token amounts that decode
IsRedeemShape(t) ==
    /\ NoBadCharms(t)
    /\ Len(InputRecords(t)) = 1
    /\ OutputRecords(t) = <<>>

\* 0 < o <= r and o <= i <= r + 100 over the integers, for the consumed
\* record's remaining_balance r and the token totals i (inputs), o (outputs)
RedeemAmountsOk(t) ==
    LET r == InputRecords(t)[1].remaining_balance
        i == TokenTotal(InCharms(t))
        o == TokenTotal(t.outs)
    IN  0 < o /\ o <= r /\ o <= i /\ i <= r + RedeemTolerance

\* the redeem rule decides by these bounds whenever remaining_balance + 100
\* fits in a u64 (the part of C15 the code satisfies)
RedeemToleranceWithinU64 ==
    (TokenDone /\ IsRedeemShape(tx)
        /\ InputRecords(tx)[1].remaining_balance + RedeemTolerance <= U64Max)
        => (can_redeem_tokens(tx) = ACCEPT <=> RedeemAmountsOk(tx))

\* C15: for one input record with any u64 remaining_balance r and no output
\* record, can_redeem_tokens accepts exactly when 0 < o <= r and
\* o <= i <= r + 100, the sum r + 100 taken without wrap-around, also for r
\* within 100 of the largest u64.
C15_RedeemTolerance ==
    (TokenDone /\ IsRedeemShape(tx))
        => (can_redeem_tokens(tx) = ACCEPT <=> RedeemAmountsOk(tx))

-----------------------------------------------------------------------------
(* C16, C17: aggregate balances *)

\* total Token Balance of a set of unspent outputs
RECURSIVE SupplyOf(_)
SupplyOf(utxos) ==
    IF utxos = {} THEN 0
    ELSE LET u == CHOOSE v \in utxos : TRUE
         IN  TokenTotal(<<u.charms>>) + SupplyOf(utxos \ {u})

\* C16: a transaction the TOKEN validator accepts and whose total input Token
\* Balance is positive has a positive total output Token Balance; hence no
\* transaction accepted by both validators is a pure burn of a positive
\* balance.
C16_NoCompleteDestruction ==
    /\ (token_result = ACCEPT /\ TokenTotal(InCharms(tx)) > 0)
            => TokenTotal(tx.outs) > 0
    /\ (BothAccept /\ TokenTotal(InCharms(tx)) > 0) => ~IsPureBurn(tx)

C16_Witness ==
    /\ BothAccept
    /\ InputRecords(tx) # <<>>
    /\ OutputRecords(tx) = <<>>
    /\ TokenTotal(InCharms(tx)) > 1
    /\ TokenTotal(tx.outs) = 1

\* the consequence of C16 for the ledger: over the transactions both
\* validators accept, a positive total supply stays positive
SupplyStaysPositive == [][SupplyOf(ledger) > 0 => SupplyOf(ledger') > 0]_vars

\* a ledger on which tokens exist and have been spent by an accepted
\* transaction
SupplySpent ==
    /\ height = MaxHeight
    /\ TokenTotal(InCharms(tx)) > 0
    /\ SupplyOf(ledger) > 0

\* records in the inputs and in the outputs; the output records together hold
\* no more than the input records, which hold as much as the input tokens and
\* as the output tokens
BalancesAggregate(t) ==
    /\ RemainingTotal(OutputRecords(t)) <= RemainingTotal(InputRecords(t))
    /\ RemainingTotal(InputRecords(t)) = TokenTotal(InCharms(t))
    /\ RemainingTotal(InputRecords(t)) = TokenTotal(t.outs)

\* the aggregate bound holds whenever the input records' balances add up
\* within u64 (the part of C17 the code satisfies)
AggregateBalanceWithinU64 ==
    (token_result = ACCEPT /\ InputRecords(tx) # <<>> /\ OutputRecords(tx) # <<>>
        /\ RemainingTotal(InputRecords(tx)) <= U64Max)
        => BalancesAggregate(tx)

\* C17: in a transaction the TOKEN validator accepts with records in inputs
\* and outputs, the output records' remaining_balance sum is at most the
\* input records' sum, and the input sum equals the total input and the total
\* output Token Balance.
C17_AggregateBalance ==
    (token_result = ACCEPT /\ InputRecords(tx) # <<>> /\ OutputRecords(tx) # <<>>)
        => BalancesAggregate(tx)

====
